---- MODULE Spec2Model ----
(***************************************************************************)
(* Quiz Attempt Engine of MedCQ: the Supabase quiz-attempt repository      *)
(* (startQuizAttempt, submitQuizAttempt, getUserResults, calculateResults) *)
(* and the quiz-attempt service on top of it, over the quiz_attempts and   *)
(* question_results tables.  Every await of submitQuizAttempt is one step, *)
(* so that several calls interleave as they do against the database.      *)
(***************************************************************************)
EXTENDS Integers, Sequences, FiniteSets, TLC

(* ---------------------------------------------------------------------- *)
(* Bounds                                                                  *)
(* ---------------------------------------------------------------------- *)
NumCalls == 2
MaxAttempts == 2
MaxTime == 90
TickSeconds == 30

(* ---------------------------------------------------------------------- *)
(* Program constants and representation                                    *)
(* ---------------------------------------------------------------------- *)
SecondsPerMinute == 60

\* pointsPossible = 1.0 is PointUnit sixths, so that 1/|C| is exact for |C| <= 3
PointUnit == 2 * 3

\* SQL NULL / JS undefined of a numeric column or field
Null == 0 - 1
\* SQL NULL of the passed column and of the score column
NoValue == <<>>

Procs == 1..NumCalls
AttemptIds == 1..MaxAttempts
UserId == "u1"

\* no floor: the second argument as it is
MaxUnfloored(a, b) == b

Max(a, b) == IF a >= b THEN a ELSE b

RECURSIVE Gcd(_, _)
Gcd(a, b) == IF b = 0 THEN a ELSE Gcd(b, a % b)

\* a non-negative rational n/d in lowest terms
Ratio(n, d) == LET g == Gcd(n, d) IN <<n \div g, d \div g>>

(* ---------------------------------------------------------------------- *)
(* The quizzes, questions and answer_options tables (read-only here)       *)
(* ---------------------------------------------------------------------- *)
OptionRow(id, correct) == [id |-> id, is_correct |-> correct]

QuizRows ==
    [q1 |-> [time_limit_minutes |-> 1, pass_score |-> 50,
             randomize_questions |-> FALSE, randomize_options |-> FALSE,
             questions |-> <<
                [id |-> "Q1", type |-> "single_choice",
                 options |-> <<OptionRow("A", TRUE), OptionRow("B", FALSE)>>],
                [id |-> "Q2", type |-> "multiple_choice",
                 options |-> <<OptionRow("A", TRUE), OptionRow("B", TRUE),
                               OptionRow("C", FALSE)>>] >>],
     q2 |-> [time_limit_minutes |-> Null, pass_score |-> Null,
             randomize_questions |-> TRUE, randomize_options |-> TRUE,
             questions |-> <<
                [id |-> "Q3", type |-> "true_false",
                 options |-> <<OptionRow("T", TRUE), OptionRow("F", FALSE)>>] >>]]

\* quiz ids a caller may pass; q404 is no row of quizzes
QuizIdInputs == {"q1", "q2", "q404"}

\* `value || undefined`: NULL and 0 both become undefined
OrUndefined(v) == IF v = Null \/ v = 0 THEN Null ELSE v

mapOption(option) == [id |-> option.id, isCorrect |-> option.is_correct]

mapQuestion(question) ==
    [id |-> question.id, type |-> question.type,
     options |-> [i \in 1..Len(question.options) |-> mapOption(question.options[i])]]

\* getQuizById, the mapping of the quizData it selected to the domain Quiz
mapQuiz(quizId, quizData) ==
    [id |-> quizId,
     timeLimit |-> OrUndefined(quizData.time_limit_minutes),
     randomizeQuestions |-> quizData.randomize_questions,
     randomizeOptions |-> quizData.randomize_options,
     passScore |-> OrUndefined(quizData.pass_score),
     questions |-> [i \in 1..Len(quizData.questions) |-> mapQuestion(quizData.questions[i])]]

\* SupabaseQuizRepository.getQuizById on an existing row: the domain Quiz
getQuizById(quizId) == mapQuiz(quizId, QuizRows[quizId])

quizFound(quizId) == quizId \in DOMAIN QuizRows

(* ---------------------------------------------------------------------- *)
(* Submitted answers: Record<string, string | string[]>                    *)
(* ---------------------------------------------------------------------- *)
Str(s) == [kind |-> "string", v |-> <<s>>]
Arr(ids) == [kind |-> "array", v |-> ids]
\* a value that is neither string nor array (the type is not checked at run time)
Num == [kind |-> "number", v |-> <<>>]

AnswerInputs ==
    [allRight |-> [Q1 |-> Str("A"), Q2 |-> Arr(<<"A", "B">>), Q3 |-> Str("T")],
     someWrong |-> [Q1 |-> Str("B"), Q2 |-> Arr(<<"A">>), Q3 |-> Str("T")],
     malformed |-> [Q1 |-> Str("A"), Q2 |-> Num, Q3 |-> Num]]

TimeTakenInputs == {10}

\* the entry as it was sent: a single string is not wrapped into an array
userAnswerUnwrapped(answers, questionId) ==
    IF questionId \notin DOMAIN answers THEN Arr(<<>>) ELSE answers[questionId]

\* answers[question.id] || [], then a single string wrapped into an array
userAnswerOf(answers, questionId) ==
    IF questionId \notin DOMAIN answers THEN Arr(<<>>)
    ELSE LET a == answers[questionId] IN
         IF a.kind = "string"
         THEN (IF a.v = <<"">> THEN Arr(<<>>) ELSE Arr(a.v))
         ELSE a

\* the option in first position taken for the correct one
firstOptionOf(question) == <<question.options[1].id>>

correctAnswersOf(question) ==
    LET ok == SelectSeq(question.options, LAMBDA opt : opt.isCorrect)
    IN  [i \in 1..Len(ok) |-> ok[i].id]

includes(seq, x) == \E i \in 1..Len(seq) : seq[i] = x

\* userAnswer.filter on a value that is no array throws a TypeError
questionThrows(question, answers) ==
    /\ question.type = "multiple_choice"
    /\ Len(correctAnswersOf(question)) > 0
    /\ userAnswerOf(answers, question.id).kind # "array"

\* one iteration of the loop of calculateResults
scoreQuestion(question, answers) ==
    LET userAnswer == userAnswerOf(answers, question.id)
        correctAnswers == correctAnswersOf(question)
        pointsPossible == PointUnit
        single ==
            IF /\ userAnswer.kind = "array"
               /\ Len(userAnswer.v) = 1
               /\ includes(correctAnswers, userAnswer.v[1])
            THEN pointsPossible ELSE 0
        correctSelections == Len(SelectSeq(userAnswer.v, LAMBDA a : includes(correctAnswers, a)))
        incorrectSelections == Len(SelectSeq(userAnswer.v, LAMBDA a : ~includes(correctAnswers, a)))
        pointsPerOption == pointsPossible \div Len(correctAnswers)
        rawPoints == pointsPerOption * (correctSelections - incorrectSelections)
        multi == IF Len(correctAnswers) > 0 THEN Max(0, rawPoints) ELSE 0
        pointsEarned ==
            IF question.type \in {"single_choice", "true_false"} THEN single
            ELSE IF question.type = "multiple_choice" THEN multi
            ELSE 0
        isCorrect ==
            IF question.type \in {"single_choice", "true_false"} THEN single = pointsPossible
            ELSE IF question.type = "multiple_choice"
                 THEN Len(correctAnswers) > 0 /\ 2 * pointsEarned >= pointsPossible
            ELSE FALSE
    IN  [questionId |-> question.id, isCorrect |-> isCorrect,
         pointsEarned |-> pointsEarned, pointsPossible |-> pointsPossible]

RECURSIVE sumPoints(_, _)
sumPoints(results, field) ==
    IF results = <<>> THEN 0
    ELSE (IF field = "earned" THEN Head(results).pointsEarned ELSE Head(results).pointsPossible)
         + sumPoints(Tail(results), field)

\* SupabaseQuizAttemptRepository.calculateResults
calculateResults(questions, answers) ==
    LET questionResults == [i \in 1..Len(questions) |-> scoreQuestion(questions[i], answers)]
    IN  [throws |-> \E i \in 1..Len(questions) : questionThrows(questions[i], answers),
         questionResults |-> questionResults,
         pointsEarned |-> sumPoints(questionResults, "earned"),
         pointsPossible |-> sumPoints(questionResults, "possible")]

\* the ratio itself, not multiplied by 100
scoreFraction(pointsEarned, pointsPossible) ==
    IF pointsPossible > 0 THEN Ratio(pointsEarned, pointsPossible) ELSE <<0, 1>>

\* pointsPossible > 0 ? (pointsEarned / pointsPossible) * 100 : 0
scorePercentage(pointsEarned, pointsPossible) ==
    IF pointsPossible > 0 THEN Ratio(100 * pointsEarned, pointsPossible) ELSE <<0, 1>>

\* quiz.passScore !== undefined ? scorePercentage >= quiz.passScore : false
passedOf(score, passScore) ==
    IF passScore # Null THEN score[1] >= passScore * score[2] ELSE FALSE

(* ---------------------------------------------------------------------- *)
(* quizAttemptService.shuffleArray (Fisher-Yates); js[i] is the index that *)
(* Math.floor(Math.random() * (i + 1)) draws for position i                *)
(* ---------------------------------------------------------------------- *)
\* half a swap: position j keeps its element
swapOverwrite(seq, i, j) == [seq EXCEPT ![i] = seq[j]]

swap(seq, i, j) == [seq EXCEPT ![i] = seq[j], ![j] = seq[i]]

RECURSIVE shuffleFrom(_, _, _)
shuffleFrom(newArray, i, js) ==
    IF i <= 1 THEN newArray ELSE shuffleFrom(swap(newArray, i, js[i]), i - 1, js)

shuffleArray(array, js) == shuffleFrom(array, Len(array), js)

RandomChoices(n) == {js \in [2..n -> 1..n] : \A i \in 2..n : js[i] <= i}

OptionChoices(questions) ==
    LET all == UNION {RandomChoices(Len(questions[k].options)) : k \in 1..Len(questions)}
    IN  {f \in [1..Len(questions) -> all] :
            \A k \in 1..Len(questions) : f[k] \in RandomChoices(Len(questions[k].options))}

\* the randomization of quizAttemptService.startQuizAttempt
randomize(quiz, jq, jo) ==
    LET qs1 == IF quiz.randomizeQuestions THEN shuffleArray(quiz.questions, jq)
               ELSE quiz.questions
        qs2 == IF quiz.randomizeOptions
               THEN [k \in 1..Len(qs1) |->
                        [qs1[k] EXCEPT !.options = shuffleArray(qs1[k].options, jo[k])]]
               ELSE qs1
    IN  [quiz EXCEPT !.questions = qs2]

(* ---------------------------------------------------------------------- *)
(* State                                                                   *)
(* ---------------------------------------------------------------------- *)
VARIABLES
    now,               \* the clock new Date() reads, in seconds
    quiz_attempts,     \* the quiz_attempts table; a row's id is its position
    question_results,  \* the question_results table, in insertion order
    calls,             \* the submitQuizAttempt calls, each at one of its awaits
    startResp,         \* what the last startQuizAttempt of the service returned
    statusHist,        \* history: every status each attempt has held
    scoredCount,       \* history: completion updates applied to each attempt
    scoring,           \* one quiz and one answers object on their way through grading
    client             \* the quiz view of one browser tab: useQuizAttempt

repoVars == <<now, quiz_attempts, question_results, calls, startResp, statusHist, scoredCount>>

vars == <<repoVars, scoring, client>>

IdleCall ==
    [pc |-> "idle", attemptId |-> 0, answers |-> "", timeTaken |-> 0,
     quiz_id |-> "", user_id |-> "", res |-> <<>>, completedAt |-> Null, idx |-> 0,
     err |-> "", result |-> <<>>,
     \* history of the call: the status it read, whether its expiry check found the
     \* deadline passed, the writes it applied, whether one of its writes failed
     \* and whether the call was issued after a call on the attempt had failed early
     sawStatus |-> "", late |-> FALSE, writes |-> 0, lost |-> FALSE, retry |-> FALSE]

NoStart == [ok |-> FALSE, attemptId |-> 0]

\* no quiz is being graded
NoScoring == [phase |-> "none"]

InitRepo ==
    /\ now = 0
    /\ quiz_attempts = <<>>
    /\ question_results = <<>>
    /\ calls = [p \in Procs |-> IdleCall]
    /\ startResp = NoStart
    /\ statusHist = [a \in AttemptIds |-> {}]
    /\ scoredCount = [a \in AttemptIds |-> 0]

\* no quiz view is mounted
NoClient == [mounted |-> FALSE]

Init == InitRepo /\ scoring = NoScoring /\ client = NoClient

attemptExists(attemptId) == attemptId \in 1..Len(quiz_attempts)

(* ---------------------------------------------------------------------- *)
(* startQuizAttempt: repository, then service                              *)
(* ---------------------------------------------------------------------- *)
\* what the clock may have gained between `now = new Date()` and the second
\* `new Date()` that expirationDate starts from
ClockLagInputs == {0, 1}

\* expirationDate.setMinutes(expirationDate.getMinutes() + quiz.timeLimit)
expiresAtOf(quiz, t) ==
    IF quiz.timeLimit # Null THEN t + quiz.timeLimit * SecondsPerMinute ELSE Null

newAttemptRow(quizId, userId, t, expiresAt) ==
    [quiz_id |-> quizId, user_id |-> userId, started_at |-> t, expires_at |-> expiresAt,
     status |-> "in_progress", completed_at |-> Null, time_taken_seconds |-> Null,
     score |-> NoValue, points_earned |-> Null, points_possible |-> Null,
     passed |-> NoValue]

\* what the service hands to the client
startResponse(attemptId, quiz, startedAt) ==
    [ok |-> TRUE, attemptId |-> attemptId, quiz |-> quiz, startedAt |-> startedAt,
     timeLimit |-> IF quiz.timeLimit # Null THEN quiz.timeLimit * SecondsPerMinute ELSE Null]

\* every failure is thrown as a DatabaseError
startErrorAlwaysDatabase(found) == "database"

\* what made startQuizAttempt throw: the quiz row is missing, or the database failed
startErrorOf(found) == IF found THEN "database" ELSE "notfound"

\* startQuizAttempt(quizId) threw instead of answering
startFailure(quizId, err) == [ok |-> FALSE, attemptId |-> 0, quizId |-> quizId, err |-> err]

\* SupabaseQuizAttemptRepository.startQuizAttempt: getQuizById, then the insert
RepoStartQuizAttempt(quizId) ==
    /\ Len(quiz_attempts) < MaxAttempts
    /\ \E loadOk \in BOOLEAN, insertOk \in BOOLEAN, lag \in ClockLagInputs :
          IF ~(loadOk /\ quizFound(quizId) /\ insertOk)
          THEN \* getQuizById or the insert failed: DatabaseError, no row
               UNCHANGED <<quiz_attempts, statusHist>>
          ELSE LET quiz == getQuizById(quizId)
                   attemptId == Len(quiz_attempts) + 1
                   row == newAttemptRow(quizId, UserId, now, expiresAtOf(quiz, now + lag))
               IN  /\ quiz_attempts' = Append(quiz_attempts, row)
                   /\ statusHist' = [statusHist EXCEPT ![attemptId] = {"in_progress"}]
    /\ UNCHANGED <<now, question_results, calls, startResp, scoredCount, scoring, client>>

\* quizAttemptService.startQuizAttempt: the repository call, getQuizById again,
\* the randomization, and the response
StartQuizAttempt(quizId) ==
    /\ Len(quiz_attempts) < MaxAttempts
    /\ \E loadOk \in BOOLEAN, insertOk \in BOOLEAN, reloadOk \in BOOLEAN,
          lag \in ClockLagInputs :
          IF ~(loadOk /\ quizFound(quizId) /\ insertOk)
          THEN /\ startResp' = startFailure(quizId, startErrorOf(quizFound(quizId)))
               /\ UNCHANGED <<quiz_attempts, statusHist>>
          ELSE LET quiz == getQuizById(quizId)
                   attemptId == Len(quiz_attempts) + 1
                   row == newAttemptRow(quizId, UserId, now, expiresAtOf(quiz, now + lag))
               IN  /\ quiz_attempts' = Append(quiz_attempts, row)
                   /\ statusHist' = [statusHist EXCEPT ![attemptId] = {"in_progress"}]
                   /\ IF reloadOk
                      THEN \E jq \in RandomChoices(Len(quiz.questions)),
                              jo \in OptionChoices(quiz.questions) :
                                startResp' = startResponse(attemptId,
                                                randomize(quiz, jq, jo), row.started_at)
                      ELSE startResp' = startFailure(quizId, "database")
    /\ UNCHANGED <<now, question_results, calls, scoredCount, scoring, client>>

\* Date.now().toString() as an attempt id: a value of the clock, never a UUID
dateNowId(t) == MaxAttempts + 1 + t

\* quizzesApi.startQuizAttempt after its POST failed: getQuiz, then a temporary
\* attempt whose id is the clock; nothing is inserted
ApiStartFallback(quizId) ==
    /\ \E loadOk \in BOOLEAN :
          IF ~(loadOk /\ quizFound(quizId))
          THEN startResp' = startFailure(quizId, startErrorOf(quizFound(quizId)))
          ELSE startResp' = startResponse(dateNowId(now), getQuizById(quizId), now)
    /\ UNCHANGED <<now, quiz_attempts, question_results, calls, statusHist, scoredCount,
                   scoring, client>>

Tick ==
    /\ now + TickSeconds <= MaxTime
    /\ now' = now + TickSeconds
    /\ UNCHANGED <<quiz_attempts, question_results, calls, startResp, statusHist, scoredCount, scoring, client>>

(* ---------------------------------------------------------------------- *)
(* submitQuizAttempt of the repository, one action per await               *)
(* ---------------------------------------------------------------------- *)
setCall(p, c) == calls' = [calls EXCEPT ![p] = c]

\* a catch block that flags the attempt it failed on
submitCatchFlagsAttempt(attempts, attemptId) ==
    IF attemptId \in 1..Len(attempts)
    THEN [attempts EXCEPT ![attemptId].status = "expired"]
    ELSE attempts

\* the catch block logs and rethrows as DatabaseError: it leaves the table alone
submitCatch(attempts, attemptId) == attempts

failCall(p, reason) ==
    /\ setCall(p, [calls[p] EXCEPT !.pc = "failed", !.err = reason])
    /\ quiz_attempts' = submitCatch(quiz_attempts, calls[p].attemptId)

\* a guard that rejects expired attempts only
statusGuardExpiredOnly(attemptData) == attemptData.status # "expired"

\* attemptData.status !== 'in_progress' throws
statusGuardPasses(attemptData) == attemptData.status = "in_progress"

\* attemptData.expires_at && new Date() > expiresAt
hasExpired(attemptData, t) == attemptData.expires_at # Null /\ t > attemptData.expires_at

\* the failures of submitQuizAttempt that come before any of its writes
EarlyFailures == {"notfound", "quizload", "scoring"}

\* a caller invokes submitQuizAttempt(attemptId, answers, timeTakenSeconds)
SubmitCall(p, attemptId, answers, timeTaken) ==
    /\ calls[p].pc = "idle"
    /\ \A q \in Procs : q < p => calls[q].pc # "idle"
    /\ setCall(p, [calls[p] EXCEPT !.pc = "read", !.attemptId = attemptId,
                                   !.answers = answers, !.timeTaken = timeTaken,
                                   !.retry = \E q \in Procs :
                                                /\ calls[q].attemptId = attemptId
                                                /\ calls[q].pc = "failed"
                                                /\ calls[q].err \in EarlyFailures])
    /\ UNCHANGED <<now, quiz_attempts, question_results, startResp, statusHist, scoredCount, scoring, client>>

\* select ... .eq('id', attemptId).single(), then the status and expiry checks
SubmitReadAttempt(p) ==
    /\ calls[p].pc = "read"
    /\ \E readOk \in BOOLEAN :
          IF ~readOk \/ ~attemptExists(calls[p].attemptId)
          THEN failCall(p, "notfound")
          ELSE LET attemptData == quiz_attempts[calls[p].attemptId]
                   c == [calls[p] EXCEPT !.sawStatus = attemptData.status,
                                         !.quiz_id = attemptData.quiz_id,
                                         !.user_id = attemptData.user_id]
               IN  IF ~statusGuardPasses(attemptData)
                   THEN /\ setCall(p, [c EXCEPT !.pc = "failed", !.err = "invalidstate"])
                        /\ quiz_attempts' = submitCatch(quiz_attempts, calls[p].attemptId)
                   ELSE /\ IF hasExpired(attemptData, now)
                           THEN setCall(p, [c EXCEPT !.pc = "expire", !.late = TRUE])
                           ELSE setCall(p, [c EXCEPT !.pc = "load"])
                        /\ UNCHANGED quiz_attempts
    /\ UNCHANGED <<now, question_results, startResp, statusHist, scoredCount, scoring, client>>

\* update({ status: 'expired' }).eq('id', attemptId), its error never read; then throw
SubmitMarkExpired(p) ==
    /\ calls[p].pc = "expire"
    /\ LET a == calls[p].attemptId IN
       \E writeOk \in BOOLEAN :
          /\ quiz_attempts' =
                IF writeOk THEN [quiz_attempts EXCEPT ![a].status = "expired"]
                ELSE quiz_attempts
          /\ statusHist' =
                IF writeOk THEN [statusHist EXCEPT ![a] = @ \cup {"expired"}]
                ELSE statusHist
          /\ setCall(p, [calls[p] EXCEPT !.pc = "failed", !.err = "expired",
                            !.writes = IF writeOk THEN @ + 1 ELSE @,
                            !.lost = @ \/ ~writeOk])
    /\ UNCHANGED <<now, question_results, startResp, scoredCount, scoring, client>>

\* getQuizById, calculateResults, score, passed, and the timestamp of the update
SubmitLoadQuiz(p) ==
    /\ calls[p].pc = "load"
    /\ \E loadOk \in BOOLEAN :
          IF ~loadOk \/ ~quizFound(calls[p].quiz_id)
          THEN failCall(p, "quizload")
          ELSE LET quiz == getQuizById(calls[p].quiz_id)
                   r == calculateResults(quiz.questions, AnswerInputs[calls[p].answers])
                   score == scorePercentage(r.pointsEarned, r.pointsPossible)
               IN  IF r.throws
                   THEN failCall(p, "scoring")
                   ELSE /\ setCall(p, [calls[p] EXCEPT
                               !.pc = "update",
                               !.completedAt = now,
                               !.res = <<[questionResults |-> r.questionResults,
                                          score |-> score,
                                          pointsEarned |-> r.pointsEarned,
                                          pointsPossible |-> r.pointsPossible,
                                          passed |-> passedOf(score, quiz.passScore),
                                          totalCount |-> Len(quiz.questions)]>>])
                        /\ UNCHANGED quiz_attempts
    /\ UNCHANGED <<now, question_results, startResp, statusHist, scoredCount, scoring, client>>

\* questionResults.filter(r => r.isCorrect).length
correctCountOf(questionResults) == Len(SelectSeq(questionResults, LAMBDA r : r.isCorrect))

\* the QuizResult the call returns
quizResultOf(c) ==
    LET r == c.res[1] IN
    [attemptId |-> c.attemptId, quizId |-> c.quiz_id, userId |-> c.user_id,
     score |-> r.score, correctCount |-> correctCountOf(r.questionResults),
     totalCount |-> r.totalCount, timeTakenSeconds |-> c.timeTaken,
     completedAt |-> c.completedAt, passed |-> r.passed]

returned(c) == [c EXCEPT !.pc = "returned", !.result = <<quizResultOf(c)>>, !.res = <<>>]

\* the completion update: .update({...status: 'completed'}).eq('id', attemptId)
completeRow(row, c) ==
    LET r == c.res[1] IN
    [row EXCEPT !.completed_at = c.completedAt,
                !.time_taken_seconds = c.timeTaken,
                !.score = r.score,
                !.points_earned = r.pointsEarned,
                !.points_possible = r.pointsPossible,
                !.status = "completed",
                !.passed = <<r.passed>>]

SubmitUpdateAttempt(p) ==
    /\ calls[p].pc = "update"
    /\ LET a == calls[p].attemptId IN
       \E writeOk \in BOOLEAN :
          IF ~writeOk
          THEN /\ setCall(p, [calls[p] EXCEPT !.pc = "failed", !.err = "update",
                                              !.lost = TRUE])
               /\ quiz_attempts' = submitCatch(quiz_attempts, a)
               /\ UNCHANGED <<statusHist, scoredCount>>
          ELSE /\ quiz_attempts' = [quiz_attempts EXCEPT ![a] = completeRow(@, calls[p])]
               /\ statusHist' = [statusHist EXCEPT ![a] = @ \cup {"completed"}]
               /\ scoredCount' = [scoredCount EXCEPT ![a] = @ + 1]
               /\ LET c == [calls[p] EXCEPT !.writes = @ + 1, !.idx = 1] IN
                  IF Len(c.res[1].questionResults) = 0
                  THEN setCall(p, returned(c))
                  ELSE setCall(p, [c EXCEPT !.pc = "insert"])
    /\ UNCHANGED <<now, question_results, startResp, scoring, client>>

questionResultRow(attemptId, result) ==
    [attempt_id |-> attemptId, question_id |-> result.questionId,
     is_correct |-> result.isCorrect, points_earned |-> result.pointsEarned,
     points_possible |-> result.pointsPossible]

\* one iteration of the question_results loop: an insert error is logged, the loop
\* goes on; after the last iteration the QuizResult is returned
SubmitInsertResult(p) ==
    /\ calls[p].pc = "insert"
    /\ LET c0 == calls[p]
           qr == c0.res[1].questionResults
       IN  \E writeOk \in BOOLEAN :
              /\ question_results' =
                    IF writeOk
                    THEN Append(question_results, questionResultRow(c0.attemptId, qr[c0.idx]))
                    ELSE question_results
              /\ LET c == [c0 EXCEPT !.idx = @ + 1,
                                     !.writes = IF writeOk THEN @ + 1 ELSE @,
                                     !.lost = @ \/ ~writeOk]
                 IN  IF c0.idx = Len(qr) THEN setCall(p, returned(c)) ELSE setCall(p, c)
    /\ UNCHANGED <<now, quiz_attempts, startResp, statusHist, scoredCount, scoring, client>>

(* ---------------------------------------------------------------------- *)
(* Reading results back: getUserResults / getQuizResults / getQuizResult   *)
(* ---------------------------------------------------------------------- *)
\* questionResultsMap[qr.question_id] = qr.is_correct over the rows of one attempt:
\* a later row of the same question overwrites an earlier one
questionResultsMap(rows, attemptId) ==
    LET mine == SelectSeq(rows, LAMBDA r : r.attempt_id = attemptId)
        ids == {mine[i].question_id : i \in 1..Len(mine)}
        last(q) == CHOOSE i \in 1..Len(mine) :
                      /\ mine[i].question_id = q
                      /\ \A j \in 1..Len(mine) : mine[j].question_id = q => j <= i
    IN  [q \in ids |-> mine[last(q)].is_correct]

\* the QuizResult built from one completed row of quiz_attempts
storedResult(attemptId) ==
    LET item == quiz_attempts[attemptId]
        map == questionResultsMap(question_results, attemptId)
    IN  [attemptId |-> attemptId, quizId |-> item.quiz_id, userId |-> item.user_id,
         score |-> item.score,
         correctCount |-> Cardinality({q \in DOMAIN map : map[q]}),
         totalCount |-> Cardinality(DOMAIN map),
         timeTakenSeconds |-> item.time_taken_seconds,
         completedAt |-> item.completed_at,
         passed |-> item.passed[1]]

\* getUserResults(userId): the completed attempts of the user
getUserResults(userId) ==
    {storedResult(a) : a \in {i \in 1..Len(quiz_attempts) :
                                 /\ quiz_attempts[i].user_id = userId
                                 /\ quiz_attempts[i].status = "completed"}}

\* getQuizResults(quizId): the completed attempts at the quiz
getQuizResults(quizId) ==
    {storedResult(a) : a \in {i \in 1..Len(quiz_attempts) :
                                 /\ quiz_attempts[i].quiz_id = quizId
                                 /\ quiz_attempts[i].status = "completed"}}

\* quizAttemptService.getQuizResult: resultsPage.items.find(r => r.attemptId === attemptId)
getQuizResult(attemptId) == {r \in getUserResults(UserId) : r.attemptId = attemptId}

(* ---------------------------------------------------------------------- *)
(* Specification                                                           *)
(* ---------------------------------------------------------------------- *)
Next ==
    \/ \E quizId \in QuizIdInputs : RepoStartQuizAttempt(quizId)
    \/ Tick
    \/ \E p \in Procs, a \in AttemptIds, ans \in DOMAIN AnswerInputs, t \in TimeTakenInputs :
          SubmitCall(p, a, ans, t)
    \/ \E p \in Procs : SubmitReadAttempt(p)
    \/ \E p \in Procs : SubmitMarkExpired(p)
    \/ \E p \in Procs : SubmitLoadQuiz(p)
    \/ \E p \in Procs : SubmitUpdateAttempt(p)
    \/ \E p \in Procs : SubmitInsertResult(p)

Spec == Init /\ [][Next]_vars

\* the service's startQuizAttempt alone, for what it hands to the client
NextStart ==
    \/ \E quizId \in QuizIdInputs : StartQuizAttempt(quizId)
    \/ \E quizId \in QuizIdInputs : ApiStartFallback(quizId)
    \/ Tick

SpecStart == Init /\ [][NextStart]_vars

(* ---------------------------------------------------------------------- *)
(* Grading on its own: one quiz and one answers object go through the      *)
(* service's startQuizAttempt (the shuffle), the scoring of the            *)
(* repository's submitQuizAttempt, and the local fallback of               *)
(* quizzesApi.submitQuizAttempt                                            *)
(* ---------------------------------------------------------------------- *)
\* the pass mark of the fallback when the quiz has none
FallbackPassScore == 70

\* the longest array in a submitted answers object
MaxAnswerLen == 3

QuestionRow(id, type, options) == [id |-> id, type |-> type, options |-> options]

\* rows of questions with their answer_options
ScoreQuestionRows ==
    [S1 |-> QuestionRow("S1", "single_choice",
                <<OptionRow("A", TRUE), OptionRow("B", FALSE), OptionRow("C", FALSE)>>),
     T1 |-> QuestionRow("T1", "true_false",
                <<OptionRow("A", TRUE), OptionRow("B", FALSE)>>),
     M1 |-> QuestionRow("M1", "multiple_choice",
                <<OptionRow("A", TRUE), OptionRow("B", FALSE), OptionRow("C", FALSE),
                  OptionRow("D", FALSE)>>),
     M2 |-> QuestionRow("M2", "multiple_choice",
                <<OptionRow("A", TRUE), OptionRow("B", TRUE), OptionRow("C", FALSE),
                  OptionRow("D", FALSE)>>),
     M3 |-> QuestionRow("M3", "multiple_choice",
                <<OptionRow("A", TRUE), OptionRow("B", TRUE), OptionRow("C", TRUE),
                  OptionRow("D", FALSE)>>),
     MS |-> QuestionRow("MS", "multiple_choice",
                <<OptionRow("A", TRUE), OptionRow("B", TRUE), OptionRow("C", FALSE)>>),
     X1 |-> QuestionRow("X1", "matching",
                <<OptionRow("A", TRUE), OptionRow("B", FALSE)>>)]

\* option ids a client may send; Z is an option of no question
OptionIdInputs == {"A", "B", "C", "D", "Z"}

\* a key of the answers object that is no question of the quiz
UnknownQuestionId == "QX"

\* pass_score column values: NULL, and thresholds from 0 to 100
PassScoreInputs == {Null, 0, 50, 100}

ScoreQuizRow(passScore, shuffled, questions) ==
    [time_limit_minutes |-> Null, pass_score |-> passScore,
     randomize_questions |-> shuffled, randomize_options |-> shuffled,
     questions |-> questions]

\* quizzes of one question, of every type
SingleQuizRows ==
    {ScoreQuizRow(Null, FALSE, <<ScoreQuestionRows[k]>>) : k \in DOMAIN ScoreQuestionRows}

\* quizzes of several questions: every pass_score, a shuffled one, one with matching
MixedQuizRows ==
    {ScoreQuizRow(p, FALSE, <<ScoreQuestionRows.S1, ScoreQuestionRows.M2>>) :
        p \in PassScoreInputs}
    \cup {ScoreQuizRow(50, TRUE, <<ScoreQuestionRows.S1, ScoreQuestionRows.MS>>),
          ScoreQuizRow(50, FALSE, <<ScoreQuestionRows.T1, ScoreQuestionRows.X1>>)}

\* every value of one entry of the answers object, up to the length bound
AnswerValues ==
    {Str(s) : s \in OptionIdInputs \cup {""}}
    \cup {Arr(ids) : ids \in UNION {[1..n -> OptionIdInputs] : n \in 0..MaxAnswerLen}}
    \cup {Num}

\* the answers objects over a quiz of one question, with or without an entry
\* under an unknown question id
SingleAnswers(question) ==
    UNION {{[k \in D |-> IF k = question.id THEN v ELSE Str("A")] : v \in AnswerValues} :
              D \in SUBSET {question.id, UnknownQuestionId}}

\* a few values per question: the right answer as a string and as an array,
\* a wrong option, an id that is no option
BriefValues(question) ==
    LET right == SelectSeq(question.options, LAMBDA opt : opt.is_correct)
        wrong == SelectSeq(question.options, LAMBDA opt : ~opt.is_correct)
    IN  {Str(right[1].id), Arr([i \in 1..Len(right) |-> right[i].id]),
         Arr(<<wrong[1].id>>), Arr(<<"Z">>)}

BriefAnswers(questions) ==
    LET idx == 1..Len(questions)
        at(k) == questions[CHOOSE i \in idx : questions[i].id = k]
        all == UNION {BriefValues(questions[i]) : i \in idx}
    IN  UNION {{f \in [D -> all] : \A k \in D : f[k] \in BriefValues(at(k))} :
                  D \in SUBSET {questions[i].id : i \in idx}}

\* the quiz row and the answers object that grading is given
ScoreInputs ==
    {<<row, SingleAnswers(row.questions[1])>> : row \in SingleQuizRows}
    \cup {<<row, BriefAnswers(row.questions)>> : row \in MixedQuizRows}

ScoreQuizId == "qs"

\* submitQuizAttempt between getQuizById and the return, without the writes:
\* calculateResults, scorePercentage, passed, correctCount, totalCount
submitScoring(quiz, answers) ==
    LET r == calculateResults(quiz.questions, answers)
        score == scorePercentage(r.pointsEarned, r.pointsPossible)
    IN  [questionResults |-> r.questionResults,
         pointsEarned |-> r.pointsEarned,
         pointsPossible |-> r.pointsPossible,
         score |-> score,
         passed |-> passedOf(score, quiz.passScore),
         correctCount |-> correctCountOf(r.questionResults),
         totalCount |-> Len(quiz.questions)]

\* the fallback's verdict on one question: `if (userAnswer)` takes "" and a missing
\* entry as no answer; multiple_choice wants exactly the correct set; every other
\* type compares the value with the id of the first correct option by ===
fallbackIsCorrect(question, answers) ==
    LET correctOptions == correctAnswersOf(question)
        userAnswer == answers[question.id]
        userAnswers == userAnswer.v
        allCorrectSelected ==
            \A i \in 1..Len(correctOptions) : includes(userAnswers, correctOptions[i])
        noIncorrectSelected ==
            \A i \in 1..Len(userAnswers) : includes(correctOptions, userAnswers[i])
    IN  /\ question.id \in DOMAIN answers
        /\ userAnswer # Str("")
        /\ IF question.type = "multiple_choice"
           THEN userAnswer.kind # "number" /\ allCorrectSelected /\ noIncorrectSelected
           ELSE /\ userAnswer.kind = "string"
                /\ Len(correctOptions) > 0
                /\ userAnswer.v[1] = correctOptions[1]

\* quizzesApi.submitQuizAttempt after the POST failed: the locally computed result
fallbackSubmit(quiz, answers) ==
    LET idx == 1..Len(quiz.questions)
        right == {i \in idx : fallbackIsCorrect(quiz.questions[i], answers)}
        correctCount == Cardinality(right)
        score == Ratio(100 * correctCount, Len(quiz.questions))
    IN  [questionResults |->
            [k \in {quiz.questions[i].id : i \in idx} |->
                \E i \in right : quiz.questions[i].id = k],
         score |-> score,
         correctCount |-> correctCount,
         totalCount |-> Len(quiz.questions),
         passed |-> IF quiz.passScore # Null /\ quiz.passScore # 0
                    THEN score[1] >= quiz.passScore * score[2]
                    ELSE score[1] >= FallbackPassScore * score[2]]

newScoring(row, answers) ==
    [phase |-> "new", row |-> row, answers |-> answers,
     quiz |-> <<>>, res |-> <<>>, fres |-> <<>>]

InitScore ==
    /\ InitRepo
    /\ \E input \in ScoreInputs : \E answers \in input[2] :
          scoring = newScoring(input[1], answers)
    /\ client = NoClient

\* quizAttemptService.startQuizAttempt: getQuizById, then the shuffles
ScoreStartAttempt ==
    /\ scoring.phase = "new"
    /\ LET quiz == mapQuiz(ScoreQuizId, scoring.row) IN
       \E jq \in RandomChoices(Len(quiz.questions)), jo \in OptionChoices(quiz.questions) :
          scoring' = [scoring EXCEPT !.phase = "started",
                                     !.quiz = <<randomize(quiz, jq, jo)>>]
    /\ UNCHANGED <<repoVars, client>>

\* the scoring of the repository's submitQuizAttempt: the quiz is read again by
\* getQuizById; a TypeError of calculateResults ends the call without a result
ScoreSubmitAttempt ==
    /\ scoring.phase \in {"started", "fallback"}
    /\ LET quiz == mapQuiz(ScoreQuizId, scoring.row) IN
       IF calculateResults(quiz.questions, scoring.answers).throws
       THEN scoring' = [scoring EXCEPT !.phase = "failed"]
       ELSE scoring' = [scoring EXCEPT
                           !.phase = IF @ = "started" THEN "graded" ELSE "both",
                           !.res = <<submitScoring(quiz, scoring.answers)>>]
    /\ UNCHANGED <<repoVars, client>>

\* the fallback of quizzesApi.submitQuizAttempt: the quiz is read again by getQuiz
ScoreSubmitFallback ==
    /\ scoring.phase \in {"started", "graded", "failed"}
    /\ scoring.fres = <<>>
    /\ scoring' = [scoring EXCEPT
                      !.phase = IF @ = "started" THEN "fallback"
                                ELSE IF @ = "graded" THEN "both" ELSE @,
                      !.fres = <<fallbackSubmit(mapQuiz(ScoreQuizId, scoring.row),
                                                scoring.answers)>>]
    /\ UNCHANGED <<repoVars, client>>

NextScore ==
    \/ ScoreStartAttempt
    \/ ScoreSubmitAttempt
    \/ ScoreSubmitFallback

SpecScore == InitScore /\ [][NextScore]_vars

(* ---------------------------------------------------------------------- *)
(* Properties                                                              *)
(* ---------------------------------------------------------------------- *)
callsOn(a) == {p \in Procs : calls[p].attemptId = a}

rowsOf(a, q) ==
    {i \in 1..Len(question_results) :
        question_results[i].attempt_id = a /\ question_results[i].question_id = q}

\* C1: of the submit calls on one attempt at most one returns a QuizResult, the
\* attempt is scored (its completion update applied) at most once, and each
\* question's result row is stored at most once.
C1_ExactlyOneSubmitScores ==
    \A a \in AttemptIds :
        /\ Cardinality({p \in callsOn(a) : calls[p].pc = "returned"}) <= 1
        /\ scoredCount[a] <= 1
        /\ \A i \in 1..Len(question_results) :
              Cardinality(rowsOf(a, question_results[i].question_id)) <= 1

\* C2: over its lifetime the status of an attempt is never both completed and
\* expired.
C2_NeverCompletedAndExpired ==
    \A a \in AttemptIds : ~({"completed", "expired"} \subseteq statusHist[a])

\* C3: a status changes only from in_progress to completed or to expired, and a
\* row whose status is completed or expired is never changed again.
C3_StepKeepsTerminalRows ==
    \A a \in 1..Len(quiz_attempts) :
        /\ quiz_attempts'[a].status # quiz_attempts[a].status
              => /\ quiz_attempts[a].status = "in_progress"
                 /\ quiz_attempts'[a].status \in {"completed", "expired"}
        /\ quiz_attempts[a].status # "in_progress" => quiz_attempts'[a] = quiz_attempts[a]

C3_OnlyTerminalTransitions == [][C3_StepKeepsTerminalRows]_vars

\* C4: a submit that reads an in_progress attempt after its expiresAt, and meets no
\* failure of the database, returns a QuizResult and leaves the status completed.
C4_LateSubmitStillGraded ==
    \A p \in Procs :
        (/\ calls[p].late
         /\ calls[p].pc \in {"returned", "failed"}
         /\ calls[p].err \notin {"quizload", "update"})
            => /\ calls[p].pc = "returned"
               /\ quiz_attempts[calls[p].attemptId].status = "completed"

\* C5: a status becomes expired only on an attempt that is in_progress and past its
\* expiresAt, and every submit that reads an expired attempt fails with the
\* invalid-state error.
C5_StepExpiresOnlyWhenDue ==
    /\ \A a \in 1..Len(quiz_attempts) :
          (quiz_attempts'[a].status = "expired" /\ quiz_attempts[a].status # "expired")
             => (quiz_attempts[a].status = "in_progress" /\ hasExpired(quiz_attempts[a], now))
    /\ \A p \in Procs :
          calls'[p].sawStatus = "expired"
             => (calls'[p].pc = "failed" /\ calls'[p].err = "invalidstate")

C5_ExpiryOnlyWhenDue == [][C5_StepExpiresOnlyWhenDue]_vars

\* C6: a submit that reads a status other than in_progress fails with the
\* invalid-state error in that very step, which leaves both tables unchanged; the
\* call has applied no write and returns no QuizResult.
C6_StepRejectsTerminal ==
    \A p \in Procs :
        /\ (calls[p].pc = "read" /\ calls'[p].sawStatus \in {"completed", "expired"})
              => /\ calls'[p].pc = "failed"
                 /\ calls'[p].err = "invalidstate"
                 /\ quiz_attempts' = quiz_attempts
                 /\ question_results' = question_results
                 /\ scoredCount' = scoredCount
        /\ calls'[p].sawStatus \in {"completed", "expired"}
              => /\ calls'[p].pc = "failed"
                 /\ calls'[p].writes = 0
                 /\ calls'[p].result = <<>>

C6_TerminalSubmitRejected == [][C6_StepRejectsTerminal]_vars

\* C6 witness: a call has returned a QuizResult and a retry on the same attempt
\* read completed and was rejected.
C6_Witness ==
    \E p, q \in Procs :
        /\ p # q
        /\ calls[p].attemptId = calls[q].attemptId
        /\ calls[p].pc = "returned"
        /\ calls[q].sawStatus = "completed"
        /\ calls[q].pc = "failed"

\* C7: the step in which a submit fails because the attempt is not found, the quiz
\* does not load or scoring throws leaves both tables unchanged, and the call
\* has applied no write before it.
C7_StepEarlyFailureWritesNothing ==
    \A p \in Procs :
        (calls[p].pc # "failed" /\ calls'[p].pc = "failed" /\ calls'[p].err \in EarlyFailures)
            => /\ quiz_attempts' = quiz_attempts
               /\ question_results' = question_results
               /\ scoredCount' = scoredCount
               /\ calls'[p].writes = 0
               /\ ~calls'[p].lost

C7_EarlyFailureWritesNothing == [][C7_StepEarlyFailureWritesNothing]_vars

\* C7 witness: a submit failed on the quiz load or in scoring, and a submit issued
\* after that failure on the same attempt returned a QuizResult.
C7_Witness ==
    \E p, q \in Procs :
        /\ p # q
        /\ calls[p].attemptId = calls[q].attemptId
        /\ calls[p].pc = "failed"
        /\ calls[p].err \in {"quizload", "scoring"}
        /\ calls[q].retry
        /\ calls[q].pc = "returned"
        /\ quiz_attempts[calls[q].attemptId].status = "completed"

\* C8: a submit that returned a QuizResult lost none of its writes.
C8_NoResultWithLostWrite ==
    \A p \in Procs : calls[p].pc = "returned" => ~calls[p].lost

\* C9: no option of the quiz handed out by startQuizAttempt carries isCorrect.
C9_StartResponseHidesAnswerKey ==
    startResp.ok =>
        \A i \in 1..Len(startResp.quiz.questions) :
            \A j \in 1..Len(startResp.quiz.questions[i].options) :
                "isCorrect" \notin DOMAIN startResp.quiz.questions[i].options[j]

\* C10: the result read back for the attempt of a returned submit has the score,
\* correctCount, totalCount and passed of the QuizResult that submit returned.
C10_StoredResultIsReturnedResult ==
    \A p \in Procs :
        calls[p].pc = "returned" =>
            /\ getQuizResult(calls[p].attemptId) # {}
            /\ \A s \in getQuizResult(calls[p].attemptId)
                        \cup {r \in getQuizResults(calls[p].quiz_id) :
                                 r.attemptId = calls[p].attemptId} :
                  LET r == calls[p].result[1] IN
                  /\ s.score = r.score
                  /\ s.correctCount = r.correctCount
                  /\ s.totalCount = r.totalCount
                  /\ s.passed = r.passed

(* ---------------------------------------------------------------------- *)
(* Properties of grading                                                   *)
(* ---------------------------------------------------------------------- *)
asSet(seq) == {seq[i] : i \in 1..Len(seq)}

\* the quiz as submitQuizAttempt reads it when it grades
gradedQuiz == mapQuiz(ScoreQuizId, scoring.row)

\* the repository has graded the answers and produced its result
hasResult == scoring.res # <<>>

\* the answer submitted to a question is a set of ids: an array without repeats,
\* one string, or nothing
submittedSet(question) ==
    LET a == userAnswerOf(scoring.answers, question.id)
    IN  a.kind = "array" /\ Cardinality(asSet(a.v)) = Len(a.v)

\* C11: a multiple_choice question with correct set C (at least one option) and
\* submitted set S earns max(0, (|S \cap C| - |S \ C|) / |C|) points and counts as
\* correct exactly when that is at least half a point; S = C earns the full point
\* and is correct, the empty S earns nothing.
C11_MultipleChoicePartialCredit ==
    hasResult =>
        \A i \in 1..Len(gradedQuiz.questions) :
            LET question == gradedQuiz.questions[i]
                r == scoring.res[1].questionResults[i]
                C == asSet(correctAnswersOf(question))
                S == asSet(userAnswerOf(scoring.answers, question.id).v)
                net == Cardinality(S \cap C) - Cardinality(S \ C)
            IN  (question.type = "multiple_choice" /\ C # {} /\ submittedSet(question)) =>
                    /\ r.questionId = question.id
                    /\ r.pointsEarned * Cardinality(C) =
                          (IF net > 0 THEN net ELSE 0) * PointUnit
                    /\ r.isCorrect <=> (2 * r.pointsEarned >= PointUnit)
                    /\ (S = C) => (r.pointsEarned = PointUnit /\ r.isCorrect)
                    /\ (S = {}) => (r.pointsEarned = 0 /\ ~r.isCorrect)

\* a graded multiple_choice question with two correct options, answered with both
\* of them and one wrong option: half a point, and correct
C11_Witness ==
    /\ hasResult
    /\ \E i \in 1..Len(gradedQuiz.questions) :
          LET question == gradedQuiz.questions[i]
              r == scoring.res[1].questionResults[i]
              C == asSet(correctAnswersOf(question))
              S == asSet(userAnswerOf(scoring.answers, question.id).v)
          IN  /\ question.type = "multiple_choice"
              /\ submittedSet(question)
              /\ Cardinality(C) = 2 /\ C \subseteq S /\ Cardinality(S \ C) = 1
              /\ 2 * r.pointsEarned = PointUnit /\ r.isCorrect

\* the fallback has produced its result
hasFallbackResult == scoring.fres # <<>>

\* the entry of the answers object under the question's id consists of exactly one
\* id, sent as a string or as an array of one element, and that id is `id`
submittedExactly(question, id) ==
    /\ question.id \in DOMAIN scoring.answers
    /\ LET a == scoring.answers[question.id]
       IN  \/ a.kind = "string" /\ a.v = <<id>>
           \/ a.kind = "array" /\ a.v = <<id>>

\* the entry is an array of one element
submittedArrayOfOne(question) ==
    /\ question.id \in DOMAIN scoring.answers
    /\ scoring.answers[question.id].kind = "array"
    /\ Len(scoring.answers[question.id].v) = 1

\* the questions of the quiz row that have one correct option and a
\* single-answer type, by position
singleAnswerQuestions ==
    {i \in 1..Len(scoring.row.questions) :
        /\ scoring.row.questions[i].type \in {"single_choice", "true_false"}
        /\ Cardinality({j \in 1..Len(scoring.row.questions[i].options) :
                            scoring.row.questions[i].options[j].is_correct}) = 1}

uniqueCorrectId(i) ==
    LET options == scoring.row.questions[i].options
    IN  options[CHOOSE j \in 1..Len(options) : options[j].is_correct].id

knownAnswers(questions, answers) ==
    LET idx == 1..Len(questions)
        at(k) == questions[CHOOSE i \in idx : questions[i].id = k]
        known(k, id) == \E j \in 1..Len(at(k).options) : at(k).options[j].id = id
        kept == {k \in DOMAIN answers :
                    /\ \E i \in idx : questions[i].id = k
                    /\ answers[k].kind = "string" => (answers[k].v = <<"">> \/ known(k, answers[k].v[1]))}
    IN  [k \in kept |->
            IF answers[k].kind = "array"
            THEN Arr(SelectSeq(answers[k].v, LAMBDA id : known(k, id)))
            ELSE answers[k]]

\* C13: scoring ignores unknown ids and does not fail on them: taking away every
\* entry under an id of no question and every option id that is no option of its
\* question leaves each question's pointsEarned and isCorrect and the aggregate
\* result as they were.
C13_UnknownIdsIgnored ==
    /\ hasResult =>
          scoring.res[1] =
              submitScoring(gradedQuiz, knownAnswers(gradedQuiz.questions, scoring.answers))
    /\ scoring.phase = "failed" =>
          \E k \in DOMAIN scoring.answers : scoring.answers[k].kind = "number"

\* the points of the first n per-question results, added up
RECURSIVE earnedUpTo(_, _)
earnedUpTo(questionResults, n) ==
    IF n = 0 THEN 0
    ELSE questionResults[n].pointsEarned + earnedUpTo(questionResults, n - 1)

\* C14: for a submitted attempt pointsPossible is the number of questions (one
\* point each), totalCount is the number of questions, correctCount is the number
\* of questions whose isCorrect is true, and scorePercent is 100 times the sum of
\* the questions' pointsEarned over pointsPossible.
C14_AggregateOfQuestionResults ==
    hasResult =>
        LET r == scoring.res[1]
            n == Len(scoring.row.questions)
        IN  /\ Len(r.questionResults) = n
            /\ r.pointsPossible = n * PointUnit
            /\ r.totalCount = n
            /\ r.correctCount = Cardinality({i \in 1..n : r.questionResults[i].isCorrect})
            /\ r.score[2] > 0
            /\ r.score[1] * r.pointsPossible =
                  100 * earnedUpTo(r.questionResults, n) * r.score[2]

\* a graded quiz of two questions, one of them correct: 50 percent
C14_Witness ==
    /\ hasResult
    /\ scoring.res[1].totalCount = 2
    /\ scoring.res[1].correctCount = 1
    /\ scoring.res[1].score = <<50, 1>>

\* a score, held as a fraction, is at least a percentage
atLeast(score, percent) == score[1] >= percent * score[2]

\* C15: when the quiz has a pass threshold configured (any value from 0 to 100,
\* 0 included) the result is passed exactly when its scorePercent is at least the
\* threshold, in the repository's result and in the fallback's.
C15_PassedIffThresholdReached ==
    scoring.row.pass_score # Null =>
        /\ hasResult =>
              (scoring.res[1].passed <=>
                  atLeast(scoring.res[1].score, scoring.row.pass_score))
        /\ hasFallbackResult =>
              (scoring.fres[1].passed <=>
                  atLeast(scoring.fres[1].score, scoring.row.pass_score))

\* C16: when the quiz has no pass threshold every path that produces a result, the
\* repository's submit and the API client's fallback, reports passed = false; no
\* default threshold is applied.
C16_NoThresholdNeverPassed ==
    (scoring.phase # "none" /\ scoring.row.pass_score = Null) =>
        /\ hasResult => ~scoring.res[1].passed
        /\ hasFallbackResult => ~scoring.fres[1].passed

\* the service has answered startQuizAttempt with the quiz it shows
hasShownQuiz == scoring.quiz # <<>>

\* the shown quiz presents its questions, and the options of one of them, in
\* another order than the stored one
shownReordered ==
    /\ hasShownQuiz
    /\ scoring.quiz[1].questions[1].id # gradedQuiz.questions[1].id
    /\ \E i \in 1..Len(scoring.quiz[1].questions) :
          \E j \in 1..Len(gradedQuiz.questions) :
             /\ scoring.quiz[1].questions[i].id = gradedQuiz.questions[j].id
             /\ scoring.quiz[1].questions[i].options # gradedQuiz.questions[j].options

\* C17: the shuffle of startQuizAttempt is a permutation: the quiz it returns has
\* the questions of the stored quiz, each once, and every question has the options
\* of the stored question, each once and each with its own isCorrect.
C17_ShuffleIsPermutation ==
    hasShownQuiz =>
        LET shown == scoring.quiz[1].questions
            stored == gradedQuiz.questions
        IN  /\ Len(shown) = Len(stored)
            /\ \A j \in 1..Len(stored) :
                  /\ Cardinality({i \in 1..Len(shown) : shown[i].id = stored[j].id}) = 1
                  /\ \A i \in 1..Len(shown) :
                        shown[i].id = stored[j].id =>
                           /\ shown[i].type = stored[j].type
                           /\ Len(shown[i].options) = Len(stored[j].options)
                           /\ \A k \in 1..Len(stored[j].options) :
                                 Cardinality({m \in 1..Len(shown[i].options) :
                                    shown[i].options[m] = stored[j].options[k]}) = 1

C17_Witness == shownReordered /\ scoring.row.randomize_questions

\* C18: grading does not depend on order: graded against the quiz in the order
\* the client was shown, the same answers give every question the result the
\* repository gave it against the stored order, and the same aggregate.
C18_GradingIgnoresOrder ==
    hasResult =>
        LET r == scoring.res[1]
            s == submitScoring(scoring.quiz[1], scoring.answers)
        IN  /\ s.pointsEarned = r.pointsEarned
            /\ s.pointsPossible = r.pointsPossible
            /\ s.score = r.score
            /\ s.passed = r.passed
            /\ s.correctCount = r.correctCount
            /\ s.totalCount = r.totalCount
            /\ asSet(s.questionResults) = asSet(r.questionResults)

\* a reordered quiz graded with points earned
C18_Witness ==
    /\ shownReordered
    /\ hasResult
    /\ scoring.res[1].pointsEarned > 0
    /\ scoring.res[1].correctCount < scoring.res[1].totalCount

\* the entry under the question's id is the question's correct answer: every
\* correct option once, as an array, or the one correct option as a string
answeredCorrectly(question) ==
    /\ question.id \in DOMAIN scoring.answers
    /\ LET a == scoring.answers[question.id]
           correct == correctAnswersOf(question)
       IN  \/ /\ a.kind = "array"
              /\ Len(a.v) = Len(correct)
              /\ asSet(a.v) = asSet(correct)
           \/ /\ a.kind = "string"
              /\ a.v = correct

\* C19: a quiz of any mix of question types, shuffled or not, that is started and
\* then submitted with the correct answer to every question scores 100 percent,
\* and is passed whenever a threshold of at most 100 is configured.
C19_AllCorrectScoresFull ==
    (/\ scoring.phase \in {"graded", "both", "failed"}
     /\ \A i \in 1..Len(scoring.quiz[1].questions) :
           answeredCorrectly(scoring.quiz[1].questions[i])) =>
        /\ hasResult
        /\ scoring.res[1].score = <<100, 1>>
        /\ (scoring.row.pass_score # Null /\ scoring.row.pass_score <= 100) =>
              scoring.res[1].passed

\* C20: the timeTakenSeconds that a submit stores and returns is the time elapsed
\* from the attempt's startedAt to the submission, and is never more than the
\* quiz's time limit in seconds when the quiz has one.
C20_TimeTakenIsElapsedAndBounded ==
    \A p \in Procs :
        calls[p].pc = "returned" =>
            LET result == calls[p].result[1]
                row == quiz_attempts[calls[p].attemptId]
                quiz == getQuizById(row.quiz_id)
            IN  /\ result.timeTakenSeconds = result.completedAt - row.started_at
                /\ quiz.timeLimit # Null =>
                      result.timeTakenSeconds <= quiz.timeLimit * SecondsPerMinute
                /\ (row.status = "completed" /\ scoredCount[calls[p].attemptId] = 1) =>
                      row.time_taken_seconds = result.timeTakenSeconds

(* ---------------------------------------------------------------------- *)
(* Properties of the attempt records                                       *)
(* ---------------------------------------------------------------------- *)
\* the step is a call of startQuizAttempt that came back, with a response or an error
startReturns == startResp' # startResp

\* C23: an attempt created by startQuizAttempt has status in_progress, startedAt
\* equal to the time of creation, expiresAt equal to exactly startedAt plus the
\* quiz's time limit when the quiz has one and no expiresAt otherwise; the time
\* limit handed to the client is expiresAt minus startedAt.
C23_StepCreatesAttempt ==
    Len(quiz_attempts') > Len(quiz_attempts) =>
        LET row == quiz_attempts'[Len(quiz_attempts')]
            limit == QuizRows[row.quiz_id].time_limit_minutes
        IN  /\ row.status = "in_progress"
            /\ row.started_at = now
            /\ IF limit # Null
               THEN /\ row.expires_at = row.started_at + limit * SecondsPerMinute
                    /\ startResp'.ok =>
                          startResp'.timeLimit = row.expires_at - row.started_at
               ELSE /\ row.expires_at = Null
                    /\ startResp'.ok => startResp'.timeLimit = Null

C23_CreatedAttempt == [][C23_StepCreatesAttempt]_vars

\* C24: startQuizAttempt for a quiz id that does not exist fails, with the quiz
\* not found as the reason, and the stored attempts are the same before and after
\* the call; it never answers with an attempt.
C24_StepMissingQuiz ==
    startReturns =>
        IF startResp'.ok
        THEN quizFound(startResp'.quiz.id)
        ELSE ~quizFound(startResp'.quizId) =>
                /\ startResp'.err = "notfound"
                /\ quiz_attempts' = quiz_attempts

C25_ExpiredHasNoResult ==
    \A a \in 1..Len(quiz_attempts) :
        quiz_attempts[a].status = "expired" =>
            /\ quiz_attempts[a].score = NoValue
            /\ quiz_attempts[a].points_earned = Null
            /\ quiz_attempts[a].points_possible = Null
            /\ quiz_attempts[a].passed = NoValue
            /\ \A i \in 1..Len(question_results) : question_results[i].attempt_id # a

\* C26: an attempt has a completedAt exactly when its status is completed or
\* expired, and completedAt is never earlier than startedAt.
C26_CompletedAtIffTerminal ==
    \A a \in 1..Len(quiz_attempts) :
        /\ (quiz_attempts[a].completed_at # Null) <=>
              (quiz_attempts[a].status \in {"completed", "expired"})
        /\ quiz_attempts[a].completed_at # Null =>
              quiz_attempts[a].completed_at >= quiz_attempts[a].started_at

\* C27: every startQuizAttempt that answers has created a new record, under an id
\* that no earlier attempt has, and has left every other record as it was.
C27_StepStartCreatesRecord ==
    (startReturns /\ startResp'.ok) =>
        /\ Len(quiz_attempts') = Len(quiz_attempts) + 1
        /\ startResp'.attemptId = Len(quiz_attempts')
        /\ startResp.ok => startResp'.attemptId # startResp.attemptId
        /\ \A a \in 1..Len(quiz_attempts) : quiz_attempts'[a] = quiz_attempts[a]

C27_AttemptsIndependent == [][C27_StepStartCreatesRecord]_vars

\* C29: for every answers object, those with repeated option ids included, every
\* question's pointsEarned lies between 0 and its pointsPossible of one point, and
\* the score lies between 0 and 100.
C29_PointsAndScoreInRange ==
    hasResult =>
        /\ \A i \in 1..Len(scoring.res[1].questionResults) :
              LET r == scoring.res[1].questionResults[i]
              IN  /\ r.pointsPossible = PointUnit
                  /\ 0 <= r.pointsEarned
                  /\ r.pointsEarned <= r.pointsPossible
        /\ 0 <= scoring.res[1].score[1]
        /\ scoring.res[1].score[1] <= 100 * scoring.res[1].score[2]

(* ---------------------------------------------------------------------- *)
(* The quiz view of the client: the hook useQuizAttempt                    *)
(*                                                                         *)
(* A render shows the hook's state and builds the closures of that render: *)
(* submitQuiz and the interval callback see the state of the render that   *)
(* built them.  A setState call queues an update; the next render commits  *)
(* it.  An updater function runs inside the setState call when nothing is  *)
(* queued, and inside the next render otherwise.  Interval ticks, renders, *)
(* clicks and responses are separate tasks of the event loop; the updates  *)
(* of a click are rendered before the click returns.                       *)
(* ---------------------------------------------------------------------- *)
\* the time limit of the attempt on the page, in seconds
TimeLimitSeconds == 3
\* submit requests one view dispatches by clicks
MaxSubmitRequests == 3
\* countdown updaters that may wait for a render
MaxQueuedTicks == 1

ClientQuestionIds == {"q1", "q2"}
ClientOptionIds == {"a"}

\* the state the hook keeps with useState
hookState(timeRemaining, isSubmitting, isQuizComplete, userAnswers) ==
    [timeRemaining |-> timeRemaining, isSubmitting |-> isSubmitting,
     isQuizComplete |-> isQuizComplete, userAnswers |-> userAnswers]

\* ids in use among a set of records
idsOf(records) == {r.id : r \in records}
freshId(records) == CHOOSE i \in 1..(Cardinality(records) + 1) : i \notin idsOf(records)

\* window.clearInterval(timerIntervalRef.current); timerIntervalRef.current = null
clearInterval(c) ==
    IF c.timerIntervalRef = Null THEN c
    ELSE [c EXCEPT !.timers = {t \in @ : t.id # c.timerIntervalRef},
                   !.timerIntervalRef = Null]

\* window.setInterval(callback, 1000) of the timer effect: the callback belongs
\* to the render shown
setInterval(c) ==
    LET id == freshId(c.timers) IN
    [c EXCEPT !.timers = @ \cup {[id |-> id, closure |-> c.shown]},
              !.timerIntervalRef = id]

\* submitQuiz of the render whose state is `closure`, called by `kind`
submitQuiz(c, closure, kind) ==
    IF closure.isSubmitting THEN c
    ELSE LET stopped == clearInterval(c) IN
         [stopped EXCEPT
             !.state.isSubmitting = TRUE,
             !.requests = @ \cup {[id |-> freshId(@), kind |-> kind,
                                   answers |-> closure.userAnswers,
                                   recorded |-> c.state.userAnswers]},
             !.sent = @ + 1]

\* the updater handed to setTimeRemaining by the interval callback of `closure`
countdownUpdater(c, closure) ==
    LET prevTime == c.state.timeRemaining IN
    IF prevTime # Null /\ prevTime <= 1
    THEN LET called == submitQuiz(clearInterval(c), closure, "auto") IN
         [called EXCEPT !.state.timeRemaining = 0, !.autoCalls = @ + 1]
    ELSE [c EXCEPT !.state.timeRemaining = IF prevTime # Null THEN prevTime - 1 ELSE Null]

\* the queued updaters, run in order by a render
RECURSIVE runUpdaters(_)
runUpdaters(c) ==
    IF c.updaters = <<>> THEN c
    ELSE runUpdaters(countdownUpdater([c EXCEPT !.updaters = Tail(@)], Head(c.updaters)))

\* the timer effect and the cleanup of its last run
timerEffect(c) ==
    LET cleaned == clearInterval(c) IN
    IF ~cleaned.shown.isQuizComplete /\ cleaned.timerIntervalRef = Null
    THEN setInterval(cleaned)
    ELSE cleaned

\* the view after startQuizAttempt and the render that follows it
mountedClient ==
    LET started == hookState(TimeLimitSeconds, FALSE, FALSE, <<>>) IN
    timerEffect([mounted |-> TRUE, shown |-> started, state |-> started,
                 updaters |-> <<>>, timers |-> {}, timerIntervalRef |-> Null,
                 requests |-> {}, sent |-> 0, autoCalls |-> 0])

InitClient == InitRepo /\ scoring = NoScoring /\ client = mountedClient

\* ticks whose update of the remaining time no render has committed yet
queuedTicks(c) ==
    Len(c.updaters) + (IF c.state.timeRemaining # c.shown.timeRemaining THEN 1 ELSE 0)

\* one firing of a live interval
IntervalTick(t) ==
    /\ t \in client.timers
    /\ queuedTicks(client) < MaxQueuedTicks
    /\ t.closure.timeRemaining # Null
    /\ \E eager \in BOOLEAN :
          IF eager /\ client.updaters = <<>> /\ client.state = client.shown
          THEN client' = countdownUpdater(client, t.closure)
          ELSE client' = [client EXCEPT !.updaters = Append(@, t.closure)]
    /\ UNCHANGED <<repoVars, scoring>>

\* a render commits the queued updates; the timer effect runs again when one of
\* its dependencies changed
Render ==
    /\ client.updaters # <<>> \/ client.state # client.shown
    /\ LET ran == runUpdaters(client)
           changed == \/ ran.state.timeRemaining # client.shown.timeRemaining
                      \/ ran.state.isQuizComplete # client.shown.isQuizComplete
           committed == [ran EXCEPT !.shown = ran.state]
       IN client' = IF changed THEN timerEffect(committed) ELSE committed
    /\ UNCHANGED <<repoVars, scoring>>

\* the render React runs before it returns from a click: it commits the updates
\* the click queued, and no dependency of the timer effect is among them
renderOfClick(c) ==
    [c EXCEPT !.shown.isSubmitting = c.state.isSubmitting,
              !.shown.userAnswers = c.state.userAnswers]

\* handleAnswerChange, called by a click on an option
handleAnswerChange(questionId, answer) ==
    /\ ~client.shown.isQuizComplete
    /\ client' = [client EXCEPT
                     !.state.userAnswers =
                         [q \in DOMAIN @ \cup {questionId} |->
                             IF q = questionId THEN answer ELSE @[q]],
                     !.shown.userAnswers =
                         [q \in DOMAIN @ \cup {questionId} |->
                             IF q = questionId THEN answer ELSE @[q]]]
    /\ UNCHANGED <<repoVars, scoring>>

\* a click on the submit button of the render shown
ClickSubmit ==
    /\ ~client.shown.isQuizComplete
    /\ client.sent < MaxSubmitRequests
    /\ client' = IF client.shown.isSubmitting THEN client
                 ELSE renderOfClick(submitQuiz(client, client.shown, "manual"))
    /\ UNCHANGED <<repoVars, scoring>>

\* quizzesApi.submitQuizAttempt settles: the rest of submitQuiz
SubmitSettles(r) ==
    /\ r \in client.requests
    /\ \E ok \in BOOLEAN :
          client' = [client EXCEPT !.requests = @ \ {r},
                                   !.state.isQuizComplete = @ \/ ok,
                                   !.state.isSubmitting = FALSE]
    /\ UNCHANGED <<repoVars, scoring>>

NextClient ==
    \/ \E t \in client.timers : IntervalTick(t)
    \/ Render
    \/ \E questionId \in ClientQuestionIds, answer \in ClientOptionIds :
          handleAnswerChange(questionId, answer)
    \/ ClickSubmit
    \/ \E r \in client.requests : SubmitSettles(r)

SpecClient == InitClient /\ [][NextClient]_vars

\* the browser fires a live interval, React renders queued updates and every
\* request settles; the user owes no click and no answer
SpecClientFair ==
    /\ SpecClient
    /\ WF_vars(\E t \in client.timers : IntervalTick(t))
    /\ WF_vars(Render)
    /\ WF_vars(\E r \in client.requests : SubmitSettles(r))

(* ---------------------------------------------------------------------- *)
(* Properties of the quiz view                                             *)
(* ---------------------------------------------------------------------- *)
requestsOf(kind) == {r \in client.requests : r.kind = kind}

\* C21: under every interleaving of ticks, renders and clicks the countdown calls
\* submitQuiz once, and at most one submit request is in flight: a manual and an
\* automatic request are never in flight together.
C21_OneSubmitInFlight ==
    /\ client.autoCalls <= 1
    /\ Cardinality(client.requests) <= 1

\* C22: while a manual submit request is in flight no interval is active, and a
\* mounted view never has more than one interval.
C22_NoIntervalDuringManualSubmit ==
    /\ Cardinality(client.timers) <= 1
    /\ requestsOf("manual") # {} => client.timers = {}

\* C28: the request of the automatic submit carries the answers recorded up to
\* the moment it is sent, an answer given after the previous tick included.
C28_AutoSubmitCarriesAnswers ==
    \A r \in requestsOf("auto") : r.answers = r.recorded

\* C30: the remaining time never increases and never falls below zero, and the
\* view ends complete or with the remaining time at zero and a submit sent,
\* also after a manual submit that failed.
C30_StepCountsDown ==
    /\ client'.state.timeRemaining <= client.state.timeRemaining
    /\ client'.state.timeRemaining >= 0
C30_CountdownReachesZero ==
    /\ [][C30_StepCountsDown]_vars
    /\ <>(\/ client.shown.isQuizComplete
          \/ client.state.timeRemaining = 0 /\ client.sent > 0)

====
